---- MODULE Spec2Model ----
(***************************************************************************)
(* hydrarelease: the build store, the release store, the latest-version    *)
(* cache and the HTTP handlers that tie them together.                     *)
(*                                                                         *)
(* Files on disk are modelled by their content as a reader finds it.       *)
(* Version strings are sequences of tokens, "v" being a token of its own,  *)
(* so that strings.TrimPrefix(version, "v") is a real operation.           *)
(* Timestamps, released_by and release_notes are carried by the code but   *)
(* decide nothing and are left out of the records.                         *)
(***************************************************************************)
EXTENDS Integers, Sequences, FiniteSets, TLC

\* ---------------------------------------------------------------- bounds
MaxBuilds == 2
MaxOps == 4
MaxFaults == 1
NumCreators == 3
MaxCreates == 3
MaxParts == 2
MaxUpdates == 2

\* ---------------------------------------------------------------- inputs
Projects == {"demo"}
BuildProjects == {"demo", "other"}
BuildUploaders == {"ci", "dev"}
ProjectInputs == Projects \cup {""}
\* A handler that knew one environment more.
validEnvironmentsLax == {"dev", "staging", "prod", "qa"}
validEnvironments == {"dev", "staging", "prod"}
ReleaseEnvs == {"prod"}
Channels == {"production", "staging", "dev"}
PublishChannels == {"production"}
PublishVersions == {<<"v", "1.2.0">>}
Uploaders == {"ci"}
Binaries == {"app"}
Hashes == {"h1"}

\* Request bodies: the well-formed ones, and ones with a single field wrong.
PromoteInputs ==
    {<<"demo", "prod", 1, <<"1.0.0">>>>, <<"demo", "prod", 2, <<"1.1.0">>>>}
    \cup {<<"", "prod", 1, <<"1.0.0">>>>, <<"demo", "qa", 1, <<"1.0.0">>>>,
          <<"demo", "prod", 0, <<"1.0.0">>>>, <<"demo", "prod", 1, <<>>>>}
RollbackInputs ==
    (Projects \X ReleaseEnvs) \cup {<<"", "prod">>, <<"demo", "qa">>}
UploadInputs ==
    (Projects \X PublishChannels \X PublishVersions \X Binaries)
    \cup {<<"demo", "dev", <<"v", "1.2.0">>, "app">>,
          <<"demo", "production", <<"v", "1.2.0">>, "finalize">>}
FinalizeInputs ==
    (Projects \X PublishChannels \X PublishVersions)
    \cup {<<"demo", "dev", <<"v", "1.2.0">>>>}

Creators == 1..NumCreators
BuildNumbers == 1..(MaxBuilds + NumCreators + 1)

Keys == Projects \X validEnvironments
CacheKeys == Projects \X Channels
SessionKeys == Projects \X PublishChannels \X PublishVersions

\* ---------------------------------------------------------------- state
VARIABLES
    buildFiles,      \* builds/<project>/<n>/build.yaml, by (project, n)
    buildIndex,      \* builds.yaml
    releaseFile,     \* releases/<project>/<env>/release.yaml, by (project, env)
    releaseIndex,    \* releases.yaml
    latest,          \* Server.latest, by (project, channel)
    uploadSessions,  \* Server.uploadSessions, by (project, channel, version)
    last,            \* the most recent release request and its outcome
    undo,            \* the run of successful rollbacks that request ends
    faults,          \* storage faults injected so far
    mu,              \* the mutex of the store called concurrently: its holder, 0 when free
    pc,              \* where each goroutine calling the store stands
    loaded,          \* what each such goroutine loaded
    created,         \* the build number Create returned to it, or the place of
                     \* the history entry its release call added; 0 for none
    compared,        \* the last call of the version package: inputs and result
    updater,         \* the self-updater: its step and the files it works on
    emitted,         \* the release events the handlers gave to the Monitor
    mirror           \* what hydramirror accepted of the legacy publish requests

goroutines == <<mu, pc, loaded, created>>
periphery == <<compared, updater, emitted, mirror>>

vars == <<buildFiles, buildIndex, releaseFile, releaseIndex,
          latest, uploadSessions, last, undo, faults, goroutines, periphery>>

\* ---------------------------------------------------------------- files
Absent == [kind |-> "absent"]
EmptyFile == [kind |-> "empty"]
Torn == [kind |-> "torn"]
Nil == [kind |-> "nil"]

\* The outcome of one write: it completes, it fails before the target is
\* touched, or it fails after the target was truncated or partly written.
WriteOutcomes == {"ok", "clean", "empty", "torn"}

\* A fault plan: no fault (at = 0) or one fault at the at-th write of the call.
\* The first failing write ends the call, so one call meets at most one fault.
NoFault == [at |-> 0, how |-> "ok"]
\* The third write of a release call is that of latest.json, of which only
\* the error is modelled: one failing outcome stands for all of them.
FaultPlans(writes) ==
    {NoFault} \cup {[at |-> i, how |-> h] : i \in 1..2, h \in WriteOutcomes \ {"ok"}}
    \cup (IF writes > 2 THEN {[at |-> 3, how |-> "clean"]} ELSE {})

OutcomeAt(plan, i) == IF plan.at = i THEN plan.how ELSE "ok"

\* os.WriteFile(path, data, perm): opens with O_TRUNC and writes in place.
OsWriteFile(old, new, how) ==
    CASE how = "ok" -> new
      [] how = "clean" -> old
      [] how = "empty" -> EmptyFile
      [] OTHER -> Torn

\* atomicWriteFile: os.WriteFile(path + ".tmp") then os.Rename(tmp, path).
\* Whatever happens to the temporary file, the target changes only by the
\* rename.
atomicWriteFile(old, new, how) ==
    LET tmp == OsWriteFile(Absent, new, how)
    IN IF how = "ok" THEN tmp ELSE old

\* ---------------------------------------------------------------- release store
Release(b, v, pb) == [kind |-> "release", build |-> b, version |-> v, prev |-> pb]

\* What yaml.Unmarshal makes of a zero-length release.yaml: no error and the
\* zero value of the struct.
ZeroRelease == Release(0, <<>>, 0)

Entry(p, e, b, v) == [project |-> p, environment |-> e, build |-> b, version |-> v]

IndexOf(entries) == [kind |-> "ok", entries |-> entries]

\* ReleaseStore.loadIndex: a missing file is an empty index.
loadIndex ==
    CASE releaseIndex.kind = "ok" -> [err |-> FALSE, entries |-> releaseIndex.entries]
      [] releaseIndex.kind = "torn" -> [err |-> TRUE, entries |-> <<>>]
      [] OTHER -> [err |-> FALSE, entries |-> <<>>]

\* ReleaseStore.loadRelease: a missing file is (nil, nil).
loadRelease(p, e) ==
    LET f == releaseFile[<<p, e>>]
    IN CASE f.kind = "release" -> [err |-> FALSE, rel |-> f]
         [] f.kind = "empty" -> [err |-> FALSE, rel |-> ZeroRelease]
         [] f.kind = "torn" -> [err |-> TRUE, rel |-> Nil]
         [] OTHER -> [err |-> FALSE, rel |-> Nil]

\* The result of a store call: the files as it leaves them, its error
\* ("" for none), the release it returns and whether a write fault was met.
StoreResult(rf, ri, err, rel, faulted) ==
    [rf |-> rf, ri |-> ri, err |-> err, rel |-> rel, faulted |-> faulted]

Untouched(err) == StoreResult(releaseFile, releaseIndex, err, Nil, FALSE)

\* The tail that Promote and Rollback share: saveRelease, append to the
\* index and saveIndex, writeLatestJSON; each an os.WriteFile in place.
\* latest.json lies in the serving directory and is read by nothing here:
\* of its write only the error it may return is kept.
Persist(p, e, rel, entries, plan) ==
    LET k == <<p, e>>
        o1 == OutcomeAt(plan, 1)
        o2 == OutcomeAt(plan, 2)
        o3 == OutcomeAt(plan, 3)
        rf1 == [releaseFile EXCEPT ![k] = OsWriteFile(@, rel, o1)]
        ri1 == OsWriteFile(releaseIndex,
                           IndexOf(Append(entries, Entry(p, e, rel.build, rel.version))),
                           o2)
    IN IF o1 # "ok" THEN StoreResult(rf1, releaseIndex, "storage", Nil, TRUE)
       ELSE IF o2 # "ok" THEN StoreResult(rf1, ri1, "storage", Nil, TRUE)
       ELSE IF o3 # "ok" THEN StoreResult(rf1, ri1, "storage", Nil, TRUE)
       ELSE StoreResult(rf1, ri1, "", rel, FALSE)

\* Promote, lines 159-162: the previous build is the current release's.
\* A Promote that recorded no previous build would give 0 here.
previousBuildForgotten(current) == 0
previousBuild(current) == IF current # Nil THEN current.build ELSE 0

\* ReleaseStore.Promote, under s.mu from entry to return.
Promote(p, e, b, v, plan) ==
    LET idx == loadIndex
        cur == loadRelease(p, e)
    IN IF idx.err THEN Untouched("storage")
       ELSE IF cur.err THEN Untouched("storage")
       ELSE Persist(p, e, Release(b, v, previousBuild(cur.rel)), idx.entries, plan)

\* Rollback, lines 223-231: scan the index backward for the previous build.
RECURSIVE scanBack(_, _, _, _, _)
scanBack(entries, i, p, e, b) ==
    IF i = 0 THEN <<>>
    ELSE IF /\ entries[i].project = p
            /\ entries[i].environment = e
            /\ entries[i].build = b
         THEN entries[i].version
         ELSE scanBack(entries, i - 1, p, e, b)

\* Rollback, lines 223-234: the version found, else the current one.
prevVersion(entries, p, e, current) ==
    LET v == scanBack(entries, Len(entries), p, e, current.prev)
    IN IF v = <<>> THEN current.version ELSE v

\* Rollback, lines 211-216: the two precondition checks.
\* A Rollback without the second check would refuse only a missing release.
rollbackRefusalLax(current) ==
    IF current = Nil THEN "no_release" ELSE ""
rollbackRefusal(current) ==
    IF current = Nil THEN "no_release"
    ELSE IF current.prev = 0 THEN "no_previous"
    ELSE ""

\* Rollback, lines 236-246: the release a rollback writes.
\* A one-way Rollback would leave no previous build behind.
rolledBackOneWay(current, v) == Release(current.prev, v, 0)
rolledBack(current, v) == Release(current.prev, v, current.build)

\* ReleaseStore.Rollback, under s.mu from entry to return.
Rollback(p, e, plan) ==
    LET cur == loadRelease(p, e)
        idx == loadIndex
    IN IF cur.err THEN Untouched("storage")
       ELSE IF rollbackRefusal(cur.rel) # "" THEN Untouched(rollbackRefusal(cur.rel))
       ELSE IF idx.err THEN Untouched("storage")
       ELSE Persist(p, e,
                    rolledBack(cur.rel, prevVersion(idx.entries, p, e, cur.rel)),
                    idx.entries, plan)

\* ReleaseStore.Get: loadRelease, and an error when there is none.
Get(p, e) ==
    LET r == loadRelease(p, e)
    IN IF r.err THEN [err |-> "storage", rel |-> Nil]
       ELSE IF r.rel = Nil THEN [err |-> "no_release", rel |-> Nil]
       ELSE [err |-> "", rel |-> r.rel]

\* ReleaseStore.List: the index entries of one project, in index order.
List(project) ==
    LET idx == loadIndex
    IN [err |-> idx.err,
        entries |-> SelectSeq(idx.entries, LAMBDA x : x.project = project)]

\* ---------------------------------------------------------------- build store
Build(p, n, by) == [kind |-> "build", project |-> p, number |-> n, by |-> by]

BuildEntry(p, n, by) == [project |-> p, number |-> n, by |-> by]

RECURSIVE maxNumber(_, _, _)
maxNumber(idx, i, project) ==
    IF i = 0 THEN 0
    ELSE LET m == maxNumber(idx, i - 1, project)
         IN IF idx[i].project = project /\ idx[i].number > m THEN idx[i].number ELSE m

\* A counter shared by all projects would number by the length of the index.
nextBuildNumberShared(idx, project) == Len(idx) + 1

\* A counter kept by the records on disk would count the build files.
nextBuildNumberByRecords(idx, project) ==
    Cardinality({k \in DOMAIN buildFiles :
                    k[1] = project /\ buildFiles[k].kind = "build"}) + 1

\* BuildStore.nextBuildNumber: one more than the largest number indexed.
nextBuildNumber(idx, project) == maxNumber(idx, Len(idx), project) + 1

BuildResult(bf, bi, err, build, faulted) ==
    [bf |-> bf, bi |-> bi, err |-> err, build |-> build, faulted |-> faulted]

\* BuildStore.Create as run on an index it loaded: the build record, then
\* the index with the new entry appended, both by atomicWriteFile.
CreateFrom(idx, p, by, plan) ==
    LET number == nextBuildNumber(idx, p)
        build == Build(p, number, by)
        o1 == OutcomeAt(plan, 1)
        o2 == OutcomeAt(plan, 2)
        bf1 == [buildFiles EXCEPT ![<<p, number>>] = atomicWriteFile(@, build, o1)]
        bi1 == atomicWriteFile(buildIndex, Append(idx, BuildEntry(p, number, by)), o2)
    IN IF o1 # "ok" THEN BuildResult(bf1, buildIndex, "storage", Nil, TRUE)
       ELSE IF o2 # "ok" THEN BuildResult(bf1, bi1, "storage", Nil, TRUE)
       ELSE BuildResult(bf1, bi1, "", build, FALSE)

\* BuildStore.Create, under s.mu from entry to return.
Create(p, by, plan) == CreateFrom(buildIndex, p, by, plan)

\* BuildStore.Get: the build record, or not found.
BuildGet(p, n) ==
    IF <<p, n>> \in DOMAIN buildFiles /\ buildFiles[<<p, n>>].kind = "build"
    THEN [err |-> "", build |-> buildFiles[<<p, n>>]]
    ELSE [err |-> "not_found", build |-> Nil]

\* BuildStore.List: the index entries of one project, in index order.
BuildList(project) == SelectSeq(buildIndex, LAMBDA x : x.project = project)

\* ---------------------------------------------------------------- cache
NoInfo == [kind |-> "none"]
latestInfo(v, b) == [kind |-> "info", version |-> v, build |-> b]

\* channelToEnv and envToChannel.
\* A mapping without the special case would name the environment as the channel.
channelToEnvSame(channel) == channel
channelToEnv(channel) == IF channel = "production" THEN "prod" ELSE channel
\* A mapping without the special case would name the channel as the environment.
envToChannelSame(env) == env
envToChannel(env) == IF env = "prod" THEN "production" ELSE env

\* Server.SetLatest on a given map.
SetLatest(m, project, channel, v, b) ==
    [m EXCEPT ![<<project, channel>>] = latestInfo(v, b)]

\* A fallback that kept only the version would answer build 0.
GetLatestVersionOnly(project, channel) ==
    IF latest[<<project, channel>>] # NoInfo
    THEN [ok |-> TRUE, info |-> latest[<<project, channel>>]]
    ELSE LET r == Get(project, channelToEnv(channel))
         IN IF r.err # "" THEN [ok |-> FALSE, info |-> NoInfo]
            ELSE [ok |-> TRUE, info |-> latestInfo(r.rel.version, 0)]

\* Server.GetLatest: the map first, the release store on a miss.
GetLatest(project, channel) ==
    IF latest[<<project, channel>>] # NoInfo
    THEN [ok |-> TRUE, info |-> latest[<<project, channel>>]]
    ELSE LET r == Get(project, channelToEnv(channel))
         IN IF r.err # "" THEN [ok |-> FALSE, info |-> NoInfo]
            ELSE [ok |-> TRUE, info |-> latestInfo(r.rel.version, r.rel.build)]

\* ReleaseStore.ListCurrentReleases: the current release of every pair that
\* has a readable one; unreadable records are skipped.
ListCurrentReleases ==
    {k \in Keys : ~loadRelease(k[1], k[2]).err /\ loadRelease(k[1], k[2]).rel # Nil}

\* Server.InitLatest on a fresh Server: SetLatest for every current release.
InitLatest ==
    [c \in CacheKeys |->
        LET from == {k \in ListCurrentReleases : k[1] = c[1] /\ envToChannel(k[2]) = c[2]}
        IN IF from = {} THEN NoInfo
           ELSE LET k == CHOOSE k \in from : TRUE
                    r == loadRelease(k[1], k[2]).rel
                IN latestInfo(r.version, r.build)]

\* strings.TrimPrefix(version, "v")
TrimPrefixV(v) == IF Len(v) >= 1 /\ v[1] = "v" THEN Tail(v) ELSE v

\* ---------------------------------------------------------------- package version
\* A version string is the sequence of its characters.
Digits == {"0", "1", "2", "3", "4", "5", "6", "7", "8", "9"}

DigitValue(ch) ==
    CASE ch = "0" -> 0 [] ch = "1" -> 1 [] ch = "2" -> 2 [] ch = "3" -> 3
      [] ch = "4" -> 4 [] ch = "5" -> 5 [] ch = "6" -> 6 [] ch = "7" -> 7
      [] ch = "8" -> 8 [] ch = "9" -> 9

\* strings.Split(s, sep) for a separator of one character: the pieces
\* between the separators, one empty piece for the empty string.
RECURSIVE Split(_, _)
Split(s, sep) ==
    IF \A i \in 1..Len(s) : s[i] # sep THEN <<s>>
    ELSE LET i == CHOOSE i \in 1..Len(s) :
                      s[i] = sep /\ \A j \in 1..(i - 1) : s[j] # sep
         IN <<SubSeq(s, 1, i - 1)>> \o Split(SubSeq(s, i + 1, Len(s)), sep)

RECURSIVE Decimal(_)
Decimal(s) ==
    IF s = <<>> THEN 0
    ELSE 10 * Decimal(SubSeq(s, 1, Len(s) - 1)) + DigitValue(s[Len(s)])

\* An Atoi that read the leading digit alone would take "10" for 1.
AtoiLenient(s) ==
    IF s # <<>> /\ s[1] \in Digits THEN Decimal(<<s[1]>>) ELSE 0

\* strconv.Atoi with its error dropped: an optional sign and decimal digits,
\* 0 for anything else.
Atoi(s) ==
    LET signed == s # <<>> /\ s[1] \in {"+", "-"}
        digits == IF signed THEN Tail(s) ELSE s
    IN IF digits = <<>> \/ \E i \in 1..Len(digits) : digits[i] \notin Digits
       THEN 0
       ELSE IF signed /\ s[1] = "-" THEN 0 - Decimal(digits) ELSE Decimal(digits)

\* The number Compare takes for the i-th component: what precedes the first
\* "-" of the component, parsed; 0 for a component the version does not have.
numAt(parts, i) ==
    IF i <= Len(parts) THEN Atoi(Split(parts[i], "-")[1]) ELSE 0

\* A loop that answered 1 at any difference would not tell above from below.
RECURSIVE compareFromSkewed(_, _, _)
compareFromSkewed(parts1, parts2, i) ==
    IF i > Len(parts1) /\ i > Len(parts2) THEN 0
    ELSE IF numAt(parts1, i) # numAt(parts2, i) THEN 1
    ELSE compareFromSkewed(parts1, parts2, i + 1)

\* The loop of Compare from component i on.
RECURSIVE compareFrom(_, _, _)
compareFrom(parts1, parts2, i) ==
    IF i > Len(parts1) /\ i > Len(parts2) THEN 0
    ELSE IF numAt(parts1, i) > numAt(parts2, i) THEN 1
    ELSE IF numAt(parts1, i) < numAt(parts2, i) THEN -1
    ELSE compareFrom(parts1, parts2, i + 1)

\* version.Compare
Compare(v1, v2) ==
    compareFrom(Split(TrimPrefixV(v1), "."), Split(TrimPrefixV(v2), "."), 1)

\* An IsNewer that held of equal versions too.
IsNewerOrSame(newVersion, currentVersion) == Compare(newVersion, currentVersion) >= 0

\* version.IsNewer
IsNewer(newVersion, currentVersion) == Compare(newVersion, currentVersion) > 0

\* The version strings compared: up to MaxParts components joined by ".",
\* with and without the leading "v".
Components ==
    {<<"0">>, <<"2">>, <<"b">>, <<"2", "-", "b">>}

RECURSIVE Dotted(_)
Dotted(n) ==
    IF n = 1 THEN Components
    ELSE {s \o <<".">> \o c : s \in Dotted(n - 1), c \in Components}

PlainVersions == UNION {Dotted(n) : n \in 1..MaxParts}
Versions == PlainVersions \cup {<<"v">> \o s : s \in PlainVersions}

NoComparison == [op |-> "none", v1 |-> <<>>, v2 |-> <<>>, result |-> 0, newer |-> FALSE]

\* ---------------------------------------------------------------- package updater
\* fmt.Sprintf("%s-%s-%s", project, GOOS, GOARCH)
binaryName == "demo-linux-amd64"
FileNames == {binaryName, "demo-darwin-arm64"}

\* What a release may serve as its binary: the build itself, a damaged copy
\* that does not start, or some other program.
Contents == {"built", "damaged", "other"}
Binary(ver, content) == [kind |-> "binary", version |-> ver, content |-> content]

\* info.Size() of os.Stat
Size(f) == IF f.kind = "binary" THEN 1 ELSE 0

\* exec.Command(tmpFile, "version"): the file starts and exits with 0.
Runs(f) == f.kind = "binary" /\ f.content # "damaged"

\* hashFile: the SHA-256 of the file's bytes, in hex.
hashFile(f) ==
    IF f.kind = "binary" THEN <<"sha256", f.version, f.content>> ELSE <<"sha256">>

\* The versions latest.json may announce, and the version running at first.
StartVersion == <<"1", ".", "0">>
UpdateVersions ==
    {<<"v", "1", ".", "0">>, <<"1", ".", "1">>, <<"v", "1", ".", "1", "-", "b">>}

\* The answers to GET <channel>/<ver>/SHA256SUMS: a status and the
\* "hash  filename" lines of the body.
NoSums == [status |-> 0, lines |-> <<>>]
SumsLines(ver) ==
    {<<>>}
    \cup {<<<<hashFile(Binary(ver, c)), n>>>> : c \in Contents, n \in FileNames}
    \cup {<<<<hashFile(Binary(ver, "other")), "demo-darwin-arm64">>,
            <<hashFile(Binary(ver, c)), binaryName>>>> : c \in Contents}
SumsAnswers(ver) ==
    {[status |-> 404, lines |-> <<>>]}
    \cup {[status |-> 200, lines |-> l] : l \in SumsLines(ver)}

\* The loop of verifyChecksum: the hash of the first line naming the binary.
NoSum == <<>>
RECURSIVE expectedSum(_, _)
expectedSum(lines, name) ==
    IF lines = <<>> THEN NoSum
    ELSE IF Head(lines)[2] = name THEN Head(lines)[1]
    ELSE expectedSum(Tail(lines), name)

\* A check that let a binary without an entry pass.
verifyChecksumLax(f, name, sums) ==
    IF sums.status # 200 THEN "checksum"
    ELSE IF expectedSum(sums.lines, name) = NoSum THEN ""
    ELSE IF hashFile(f) # expectedSum(sums.lines, name) THEN "checksum"
    ELSE ""

\* Updater.verifyChecksum: "" when the file passes, the error otherwise.
verifyChecksum(f, name, sums) ==
    IF sums.status # 200 THEN "checksum"
    ELSE IF expectedSum(sums.lines, name) = NoSum THEN "checksum"
    ELSE IF hashFile(f) # expectedSum(sums.lines, name) THEN "checksum"
    ELSE ""

\* downloadFile: the request fails before the file is created, or the file
\* is created and the body copied into it, wholly or until an error.
Downloads(ver) ==
    {[err |-> TRUE, created |-> FALSE, file |-> Absent]}
    \cup {[err |-> FALSE, created |-> TRUE, file |-> f] :
             f \in {EmptyFile} \cup {Binary(ver, c) : c \in Contents}}
    \cup {[err |-> TRUE, created |-> TRUE, file |-> f] :
             f \in {EmptyFile, Binary(ver, "damaged")}}

\* UpdateInfo, and the Available of CheckForUpdate.
UpdateInfo(current, latestVersion, available) ==
    [CurrentVersion |-> current, LatestVersion |-> latestVersion,
     Available |-> available]
NoUpdateInfo == UpdateInfo(<<>>, <<>>, FALSE)

\* A check that offered equal versions too.
AvailableOrSame(latestVersion, currentVersion) ==
    Compare(latestVersion, currentVersion) >= 0

Available(latestVersion, currentVersion) ==
    Compare(latestVersion, currentVersion) > 0

UpdaterStart ==
    [pc |-> "idle", current |-> StartVersion, ver |-> <<>>,
     exec |-> Binary(StartVersion, "built"), tmp |-> Absent, backup |-> Absent,
     was |-> Binary(StartVersion, "built"), sums |-> NoSums, result |-> "", n |-> 0,
     info |-> NoUpdateInfo,
     loop |-> "off", autoApply |-> FALSE, checked |-> NoUpdateInfo, log |-> ""]

\* ---------------------------------------------------------------- requests
\* What the model remembers of the last release request: the handler, its
\* target and arguments, the status it answered, the release file it found,
\* the record the store returned and whether the store or the cache changed.
Request(op, p, e, arg, status, before, ret) ==
    [op |-> op, project |-> p, env |-> e, arg |-> arg, status |-> status,
     before |-> before, ret |-> ret, changed |-> FALSE]

NoArg == <<0, <<>>>>
NoRequest == Request("none", "", "", NoArg, "", Nil, Nil)

\* The request as remembered once its step has set the store and the cache.
Stamp(r) ==
    [r EXCEPT !.changed = <<releaseFile', releaseIndex', latest'>>
                          # <<releaseFile, releaseIndex, latest>>]

\* A run of consecutive successful rollbacks of one pair: how many, and the
\* release file the first of them found.
NoRun == [n |-> 0, start |-> Nil]

NoSession == [b \in Binaries |-> ""]

\* The mirror as the publish handlers meet it: the binaries it accepted for
\* a version since the session of that version was last taken, the upload
\* requests whose hash the session holds, the sessions finalize took and
\* those of them whose SHA256SUMS the mirror accepted.
NoMirror == [accepted |-> {}, uploads |-> {}, taken |-> {}, sums |-> {}]
SessionSize(files) == Cardinality({b \in Binaries : files[b] # ""})

\* validNameRe on the model's names: the empty name is the invalid one.
validName(s) == s # ""
validVersionName(v) == Len(v) > 0

\* The release service on an empty data directory.
InitService ==
    /\ buildFiles = [k \in BuildProjects \X BuildNumbers |-> Absent]
    /\ buildIndex = <<>>
    /\ releaseFile = [k \in Keys |-> Absent]
    /\ releaseIndex = Absent
    /\ latest = [c \in CacheKeys |-> NoInfo]
    /\ uploadSessions = [k \in SessionKeys |-> NoSession]
    /\ last = NoRequest
    /\ undo = NoRun
    /\ faults = 0
    /\ mu = 0
    /\ pc = [c \in Creators |-> "idle"]
    /\ loaded = [c \in Creators |-> <<>>]
    /\ created = [c \in Creators |-> 0]

Init ==
    /\ InitService
    /\ compared = NoComparison
    /\ updater = UpdaterStart
    /\ emitted = <<>>
    /\ mirror = NoMirror

\* The plans a call may meet: faults are injected MaxFaults times at most.
Plans(writes) == IF faults < MaxFaults THEN FaultPlans(writes) ELSE {NoFault}

Charge(faulted) == faults' = IF faulted THEN faults + 1 ELSE faults

\* The history bound: release requests are taken while the index has room.
HistoryRoom == Len(loadIndex.entries) < MaxOps

Status(err) == IF err = "" THEN "ok" ELSE err

\* POST /api/v1/builds
handleCreateBuild(p, by, nfiles) ==
    /\ Len(buildIndex) < MaxBuilds
    /\ UNCHANGED <<periphery, releaseFile, releaseIndex, latest, uploadSessions,
                   last, undo, goroutines>>
    /\ IF p = "" \/ nfiles = 0
       THEN UNCHANGED <<buildFiles, buildIndex, faults>>
       ELSE \E plan \in Plans(2) :
               LET r == Create(p, by, plan)
               IN /\ Charge(r.faulted)
                  /\ buildFiles' = r.bf
                  /\ buildIndex' = r.bi

\* POST /api/v1/releases
handlePromoteRelease(p, e, b, v) ==
    /\ HistoryRoom
    /\ UNCHANGED <<periphery, buildFiles, buildIndex, latest, uploadSessions, goroutines>>
    /\ IF p = "" \/ e \notin validEnvironments \/ b <= 0 \/ v = <<>>
       THEN /\ UNCHANGED <<releaseFile, releaseIndex, faults>>
            /\ undo' = NoRun
            /\ last' = Stamp(Request("promote", p, e, <<b, v>>, "invalid", Nil, Nil))
       ELSE IF BuildGet(p, b).err # ""
       THEN /\ UNCHANGED <<releaseFile, releaseIndex, faults>>
            /\ undo' = NoRun
            /\ last' = Stamp(Request("promote", p, e, <<b, v>>, "no_build",
                                     releaseFile[<<p, e>>], Nil))
       ELSE \E plan \in Plans(3) :
               LET r == Promote(p, e, b, v, plan)
               IN /\ Charge(r.faulted)
                  /\ releaseFile' = r.rf
                  /\ releaseIndex' = r.ri
                  /\ undo' = NoRun
                  /\ last' = Stamp(Request("promote", p, e, <<b, v>>, Status(r.err),
                                           releaseFile[<<p, e>>], r.rel))

\* POST /api/v1/releases/rollback
handleRollbackRelease(p, e) ==
    /\ HistoryRoom
    /\ UNCHANGED <<periphery, buildFiles, buildIndex, latest, uploadSessions, goroutines>>
    /\ IF p = "" \/ e \notin validEnvironments
       THEN /\ UNCHANGED <<releaseFile, releaseIndex, faults>>
            /\ undo' = NoRun
            /\ last' = Stamp(Request("rollback", p, e, NoArg, "invalid", Nil, Nil))
       ELSE IF Get(p, e).err # ""
       THEN /\ UNCHANGED <<releaseFile, releaseIndex, faults>>
            /\ undo' = NoRun
            /\ last' = Stamp(Request("rollback", p, e, NoArg, Get(p, e).err,
                                     releaseFile[<<p, e>>], Nil))
       ELSE \E plan \in Plans(3) :
               LET r == Rollback(p, e, plan)
                   running == /\ undo.n > 0
                              /\ last.op = "rollback"
                              /\ last.project = p
                              /\ last.env = e
               IN /\ Charge(r.faulted)
                  /\ releaseFile' = r.rf
                  /\ releaseIndex' = r.ri
                  /\ undo' = IF r.err # "" THEN NoRun
                             ELSE IF running THEN [undo EXCEPT !.n = @ + 1]
                             ELSE [n |-> 1, start |-> releaseFile[<<p, e>>]]
                  /\ last' = Stamp(Request("rollback", p, e, NoArg, Status(r.err),
                                           releaseFile[<<p, e>>], r.rel))

\* POST /api/v1/publish/{project}/{channel}/{version}/{binary}
handleUploadBinary(p, ch, v, bin, h, mirrorOK) ==
    /\ UNCHANGED <<periphery, buildFiles, buildIndex, releaseFile, releaseIndex,
                   latest, last, undo, faults, goroutines>>
    /\ IF ~validName(p) \/ ch \notin {"production", "staging"} \/ ~validVersionName(v)
          \/ bin = "finalize" \/ ~validName(bin)
       THEN UNCHANGED uploadSessions
       ELSE IF ~mirrorOK
       THEN UNCHANGED uploadSessions
       ELSE uploadSessions' = [uploadSessions EXCEPT ![<<p, ch, v>>][bin] = h]

\* POST /api/v1/publish/{project}/{channel}/{version}/finalize
handleFinalize(p, ch, v, mirrorOK) ==
    /\ HistoryRoom
    /\ UNCHANGED <<periphery, buildFiles, buildIndex, goroutines>>
    /\ IF ~validName(p) \/ ch \notin {"production", "staging"} \/ ~validVersionName(v)
       THEN UNCHANGED <<releaseFile, releaseIndex, latest, uploadSessions, faults,
                        last, undo>>
       ELSE LET files == uploadSessions[<<p, ch, v>>]
                env == channelToEnv(ch)
                clean == TrimPrefixV(v)
            IN /\ uploadSessions' = [uploadSessions EXCEPT ![<<p, ch, v>>] = NoSession]
               /\ undo' = NoRun
               /\ IF SessionSize(files) = 0
                  THEN /\ UNCHANGED <<releaseFile, releaseIndex, latest, faults>>
                       /\ last' = Stamp(Request("finalize", p, env, <<0, clean>>,
                                                "no_files", Nil, Nil))
                  ELSE IF ~mirrorOK
                  THEN /\ UNCHANGED <<releaseFile, releaseIndex, latest, faults>>
                       /\ last' = Stamp(Request("finalize", p, env, <<0, clean>>,
                                                "bad_gateway", Nil, Nil))
                  ELSE \E plan \in Plans(3) :
                          LET r == Promote(p, env, 0, clean, plan)
                          IN /\ Charge(r.faulted)
                             /\ releaseFile' = r.rf
                             /\ releaseIndex' = r.ri
                             /\ latest' = SetLatest(latest, p, ch, clean, 0)
                             /\ last' = Stamp(Request("finalize", p, env, <<0, clean>>,
                                                      "ok", releaseFile[<<p, env>>], r.rel))

\* The process stops and starts again: the Server is built anew and
\* InitLatest runs before the first request is served.
Restart ==
    /\ latest' = InitLatest
    /\ uploadSessions' = [k \in SessionKeys |-> NoSession]
    /\ last' = Request("start", "", "", NoArg, "ok", Nil, Nil)
    /\ undo' = NoRun
    /\ UNCHANGED <<periphery, buildFiles, buildIndex, releaseFile, releaseIndex,
                   faults, goroutines>>

CreateBuild ==
    \E p \in ProjectInputs, by \in Uploaders, nfiles \in {0, 1} :
        handleCreateBuild(p, by, nfiles)

PromoteRelease ==
    \E in \in PromoteInputs : handlePromoteRelease(in[1], in[2], in[3], in[4])

RollbackRelease ==
    \E in \in RollbackInputs : handleRollbackRelease(in[1], in[2])

UploadBinary ==
    \E in \in UploadInputs, h \in Hashes, mirrorOK \in BOOLEAN :
        handleUploadBinary(in[1], in[2], in[3], in[4], h, mirrorOK)

Finalize ==
    \E in \in FinalizeInputs, mirrorOK \in BOOLEAN :
        handleFinalize(in[1], in[2], in[3], mirrorOK)

Next ==
    \/ CreateBuild
    \/ PromoteRelease
    \/ RollbackRelease
    \/ UploadBinary
    \/ Finalize

Spec == Init /\ [][Next]_vars

\* The server with restarts of the process between requests.
NextServe == Next \/ Restart

SpecServe == Init /\ [][NextServe]_vars

\* ---------------------------------------------------------------- concurrent Create
\* BuildStore.Create run by several goroutines at once, for one project:
\* s.mu.Lock(), loadIndex, the two writes, and the deferred s.mu.Unlock().

\* sync.Mutex: Lock returns once no goroutine holds the mutex.
\* Without the mutex a goroutine would enter at any time.
mutexIgnored(holder) == TRUE
mutexFree(holder) == holder = 0

CreateLock(c) ==
    /\ pc[c] = "idle"
    /\ mutexFree(mu)
    /\ mu' = c
    /\ pc' = [pc EXCEPT ![c] = "locked"]
    /\ UNCHANGED <<periphery, buildFiles, buildIndex, releaseFile, releaseIndex, latest,
                   uploadSessions, last, undo, faults, loaded, created>>

CreateLoad(c) ==
    /\ pc[c] = "locked"
    /\ loaded' = [loaded EXCEPT ![c] = buildIndex]
    /\ pc' = [pc EXCEPT ![c] = "loaded"]
    /\ UNCHANGED <<periphery, buildFiles, buildIndex, releaseFile, releaseIndex, latest,
                   uploadSessions, last, undo, faults, mu, created>>

CreateWrite(c) ==
    /\ pc[c] = "loaded"
    /\ \E plan \in Plans(2) :
          LET r == CreateFrom(loaded[c], "demo", c, plan)
          IN /\ Charge(r.faulted)
             /\ buildFiles' = r.bf
             /\ buildIndex' = r.bi
             /\ created' = [created EXCEPT ![c] = IF r.err = "" THEN r.build.number ELSE 0]
    /\ pc' = [pc EXCEPT ![c] = "returning"]
    /\ UNCHANGED <<periphery, releaseFile, releaseIndex, latest, uploadSessions, last, undo,
                   mu, loaded>>

CreateUnlock(c) ==
    /\ pc[c] = "returning"
    /\ mu' = 0
    /\ pc' = [pc EXCEPT ![c] = "done"]
    /\ UNCHANGED <<periphery, buildFiles, buildIndex, releaseFile, releaseIndex, latest,
                   uploadSessions, last, undo, faults, loaded, created>>

NextCreate ==
    \E c \in Creators :
        \/ CreateLock(c)
        \/ CreateLoad(c)
        \/ CreateWrite(c)
        \/ CreateUnlock(c)

SpecCreate == Init /\ [][NextCreate]_vars

\* ---------------------------------------------------------------- concurrent release calls
\* Promote, Rollback, Get and List of one ReleaseStore called by several
\* goroutines at once for one pair, each call step by step: s.mu.Lock(), the
\* loads, saveRelease, saveIndex, writeLatestJSON, the deferred Unlock.
CallTarget == <<"demo", "prod">>
CallInputs == {<<1, <<"1.0.0">>>>, <<2, <<"1.1.0">>>>}

\* The outcomes a write may have while faults remain to be injected.
Outcomes(hows) == IF faults < MaxFaults THEN hows ELSE {"ok"}

Failed(err) == [err |-> err]
Loaded(entries, rel) == [err |-> "", entries |-> entries, rel |-> rel]

ReleaseLock(c) ==
    /\ pc[c] = "idle"
    /\ mutexFree(mu)
    /\ mu' = c
    /\ pc' = [pc EXCEPT ![c] = "locked"]
    /\ UNCHANGED <<periphery, buildFiles, buildIndex, releaseFile, releaseIndex, latest,
                   uploadSessions, last, undo, faults, loaded, created>>

\* Promote, lines 148-175: the loads and the release to write.
PromoteLoad(c, b, v) ==
    /\ pc[c] = "locked"
    /\ LET idx == loadIndex
           cur == loadRelease(CallTarget[1], CallTarget[2])
       IN IF idx.err \/ cur.err
          THEN /\ loaded' = [loaded EXCEPT ![c] = Failed("storage")]
               /\ pc' = [pc EXCEPT ![c] = "returning"]
          ELSE /\ loaded' = [loaded EXCEPT ![c] =
                                Loaded(idx.entries, Release(b, v, previousBuild(cur.rel)))]
               /\ pc' = [pc EXCEPT ![c] = "loaded"]
    /\ UNCHANGED <<periphery, buildFiles, buildIndex, releaseFile, releaseIndex, latest,
                   uploadSessions, last, undo, faults, mu, created>>

\* Rollback, lines 207-246: the loads, the checks and the release to write.
RollbackLoad(c) ==
    /\ pc[c] = "locked"
    /\ LET cur == loadRelease(CallTarget[1], CallTarget[2])
           idx == loadIndex
       IN IF cur.err
          THEN /\ loaded' = [loaded EXCEPT ![c] = Failed("storage")]
               /\ pc' = [pc EXCEPT ![c] = "returning"]
          ELSE IF rollbackRefusal(cur.rel) # ""
          THEN /\ loaded' = [loaded EXCEPT ![c] = Failed(rollbackRefusal(cur.rel))]
               /\ pc' = [pc EXCEPT ![c] = "returning"]
          ELSE IF idx.err
          THEN /\ loaded' = [loaded EXCEPT ![c] = Failed("storage")]
               /\ pc' = [pc EXCEPT ![c] = "returning"]
          ELSE /\ loaded' = [loaded EXCEPT ![c] =
                                Loaded(idx.entries,
                                       rolledBack(cur.rel,
                                                  prevVersion(idx.entries, CallTarget[1],
                                                              CallTarget[2], cur.rel)))]
               /\ pc' = [pc EXCEPT ![c] = "loaded"]
    /\ UNCHANGED <<periphery, buildFiles, buildIndex, releaseFile, releaseIndex, latest,
                   uploadSessions, last, undo, faults, mu, created>>

\* saveRelease
ReleaseSave(c) ==
    /\ pc[c] = "loaded"
    /\ \E how \in Outcomes(WriteOutcomes) :
          /\ releaseFile' = [releaseFile EXCEPT ![CallTarget] =
                                OsWriteFile(@, loaded[c].rel, how)]
          /\ Charge(how # "ok")
          /\ pc' = [pc EXCEPT ![c] = IF how = "ok" THEN "saved" ELSE "returning"]
    /\ UNCHANGED <<periphery, buildFiles, buildIndex, releaseIndex, latest, uploadSessions,
                   last, undo, mu, loaded, created>>

\* append to the loaded index and saveIndex
ReleaseSaveIndex(c) ==
    /\ pc[c] = "saved"
    /\ \E how \in Outcomes(WriteOutcomes) :
          /\ releaseIndex' =
                OsWriteFile(releaseIndex,
                            IndexOf(Append(loaded[c].entries,
                                           Entry(CallTarget[1], CallTarget[2],
                                                 loaded[c].rel.build, loaded[c].rel.version))),
                            how)
          /\ Charge(how # "ok")
          /\ pc' = [pc EXCEPT ![c] = IF how = "ok" THEN "indexed" ELSE "returning"]
    /\ UNCHANGED <<periphery, buildFiles, buildIndex, releaseFile, latest, uploadSessions,
                   last, undo, mu, loaded, created>>

\* writeLatestJSON, and the return of the release on success
ReleaseWriteLatest(c) ==
    /\ pc[c] = "indexed"
    /\ \E how \in Outcomes({"ok", "clean"}) :
          /\ Charge(how # "ok")
          /\ created' = [created EXCEPT ![c] =
                            IF how = "ok" THEN Len(loaded[c].entries) + 1 ELSE 0]
    /\ pc' = [pc EXCEPT ![c] = "returning"]
    /\ UNCHANGED <<periphery, buildFiles, buildIndex, releaseFile, releaseIndex, latest,
                   uploadSessions, last, undo, mu, loaded>>

ReleaseUnlock(c) ==
    /\ pc[c] = "returning"
    /\ mu' = 0
    /\ pc' = [pc EXCEPT ![c] = "done"]
    /\ UNCHANGED <<periphery, buildFiles, buildIndex, releaseFile, releaseIndex, latest,
                   uploadSessions, last, undo, faults, loaded, created>>

\* Get and List: s.mu.Lock(), one load, the deferred Unlock.
ReadLock(c) ==
    /\ pc[c] = "idle"
    /\ mutexFree(mu)
    /\ mu' = c
    /\ pc' = [pc EXCEPT ![c] = "reading"]
    /\ UNCHANGED <<periphery, buildFiles, buildIndex, releaseFile, releaseIndex, latest,
                   uploadSessions, last, undo, faults, loaded, created>>

ReadGet(c) ==
    /\ pc[c] = "reading"
    /\ loaded' = [loaded EXCEPT ![c] = Get(CallTarget[1], CallTarget[2])]
    /\ mu' = 0
    /\ pc' = [pc EXCEPT ![c] = "done"]
    /\ UNCHANGED <<periphery, buildFiles, buildIndex, releaseFile, releaseIndex, latest,
                   uploadSessions, last, undo, faults, created>>

ReadList(c) ==
    /\ pc[c] = "reading"
    /\ loaded' = [loaded EXCEPT ![c] = List(CallTarget[1])]
    /\ mu' = 0
    /\ pc' = [pc EXCEPT ![c] = "done"]
    /\ UNCHANGED <<periphery, buildFiles, buildIndex, releaseFile, releaseIndex, latest,
                   uploadSessions, last, undo, faults, created>>

NextReleases ==
    \E c \in Creators :
        \/ ReleaseLock(c)
        \/ \E in \in CallInputs : PromoteLoad(c, in[1], in[2])
        \/ RollbackLoad(c)
        \/ ReleaseSave(c)
        \/ ReleaseSaveIndex(c)
        \/ ReleaseWriteLatest(c)
        \/ ReleaseUnlock(c)
        \/ ReadLock(c)
        \/ ReadGet(c)
        \/ ReadList(c)

SpecReleases == Init /\ [][NextReleases]_vars

\* ---------------------------------------------------------------- sequential Create
\* BuildStore.Create called one call after another, for several projects
\* and uploaders; the call and what it returned are remembered in last.
CreateCall(p, by) ==
    /\ Len(buildIndex) < MaxCreates
    /\ \E plan \in Plans(2) :
          LET r == Create(p, by, plan)
          IN /\ Charge(r.faulted)
             /\ buildFiles' = r.bf
             /\ buildIndex' = r.bi
             /\ last' = Request("create", p, "", NoArg, Status(r.err), buildIndex, r.build)
    /\ UNCHANGED <<periphery, releaseFile, releaseIndex, latest, uploadSessions, undo, goroutines>>

NextBuilds == \E p \in BuildProjects, by \in BuildUploaders : CreateCall(p, by)

SpecBuilds == Init /\ [][NextBuilds]_vars

\* ---------------------------------------------------------------- version calls
\* The release service, which the clients below leave alone.
service == <<buildFiles, buildIndex, releaseFile, releaseIndex, latest,
             uploadSessions, last, undo, faults, goroutines>>

\* Two version strings about to be handed to the version package.
InitVersion ==
    /\ InitService
    /\ compared \in {[NoComparison EXCEPT !.v1 = a, !.v2 = b] :
                        a \in Versions, b \in Versions}
    /\ updater = UpdaterStart
    /\ emitted = <<>>
    /\ mirror = NoMirror

\* version.Compare and version.IsNewer called on them.
CompareCall ==
    /\ compared.op = "none"
    /\ compared' = [compared EXCEPT !.op = "Compare",
                                    !.result = Compare(compared.v1, compared.v2)]
    /\ UNCHANGED <<service, updater, emitted, mirror>>

IsNewerCall ==
    /\ compared.op = "none"
    /\ compared' = [compared EXCEPT !.op = "IsNewer",
                                    !.newer = IsNewer(compared.v1, compared.v2)]
    /\ UNCHANGED <<service, updater, emitted, mirror>>

NextVersion == CompareCall \/ IsNewerCall

SpecVersion == InitVersion /\ [][NextVersion]_vars

\* ---------------------------------------------------------------- PerformUpdate
\* Updater.PerformUpdate step by step. CheckForUpdate reads latest.json;
\* nothing is downloaded unless the announced version is newer.
updateChecked(u, announced) ==
    LET latestVersion == TrimPrefixV(announced)
        currentVersion == TrimPrefixV(u.current)
        available == Available(latestVersion, currentVersion)
    IN [u EXCEPT
           !.n = @ + 1,
           !.info = UpdateInfo(currentVersion, latestVersion, available),
           !.was = u.exec,
           !.sums = NoSums,
           !.ver = IF available THEN <<"v">> \o latestVersion ELSE <<>>,
           !.pc = IF available THEN "download" ELSE "idle",
           !.result = IF available THEN "" ELSE "uptodate"]

\* PerformUpdate called from the command line.
PerformUpdateCheck(announced) ==
    /\ updater.pc = "idle"
    /\ updater.loop = "off"
    /\ updater.n < MaxUpdates
    /\ updater' = updateChecked(updater, announced)
    /\ UNCHANGED <<service, compared, emitted, mirror>>

\* downloadFile(downloadURL, tmpFile); on its error PerformUpdate returns.
PerformUpdateDownload(d) ==
    /\ updater.pc = "download"
    /\ updater' = [updater EXCEPT
           !.tmp = IF d.created THEN d.file ELSE @,
           !.pc = IF d.err THEN "idle" ELSE "verify",
           !.result = IF d.err THEN "download" ELSE ""]
    /\ UNCHANGED <<service, compared, emitted, mirror>>

\* os.Stat, verifyChecksum, os.Chmod and the run of "<tmpFile> version":
\* the first that fails removes the download and ends the update.
PerformUpdateVerify(sums, chmodOK) ==
    /\ updater.pc = "verify"
    /\ LET f == updater.tmp
           err == IF f.kind = "absent" \/ Size(f) = 0 THEN "empty"
                  ELSE IF verifyChecksum(f, binaryName, sums) # "" THEN "checksum"
                  ELSE IF ~chmodOK THEN "chmod"
                  ELSE IF ~Runs(f) THEN "unrunnable"
                  ELSE ""
       IN updater' = [updater EXCEPT
              !.sums = IF err = "empty" THEN @ ELSE sums,
              !.tmp = IF err # "" THEN Absent ELSE @,
              !.pc = IF err # "" THEN "idle" ELSE "replace",
              !.result = err]
    /\ UNCHANGED <<service, compared, emitted, mirror>>

\* The backup and the replace: the executable is renamed to the backup
\* path and the download to the executable's; when the second rename fails
\* the first is undone. A restarted service runs the installed version.
PerformUpdateReplace(backupOK, installOK, restoreOK, restarted) ==
    /\ updater.pc = "replace"
    /\ updater' =
          IF ~backupOK
          THEN [updater EXCEPT !.backup = Absent, !.tmp = Absent,
                               !.pc = "idle", !.result = "backup"]
          ELSE IF ~installOK
          THEN [updater EXCEPT
                   !.exec = IF restoreOK THEN updater.exec ELSE Absent,
                   !.backup = IF restoreOK THEN Absent ELSE updater.exec,
                   !.tmp = Absent, !.pc = "idle", !.result = "install"]
          ELSE [updater EXCEPT
                   !.exec = updater.tmp, !.backup = updater.exec, !.tmp = Absent,
                   !.current = IF restarted THEN updater.ver ELSE @,
                   !.pc = "idle", !.result = "updated"]
    /\ UNCHANGED <<service, compared, emitted, mirror>>

NextUpdater ==
    \/ \E announced \in UpdateVersions : PerformUpdateCheck(announced)
    \/ \E d \in Downloads(updater.ver) : PerformUpdateDownload(d)
    \/ \E sums \in SumsAnswers(updater.ver), chmodOK \in BOOLEAN :
           PerformUpdateVerify(sums, chmodOK)
    \/ \E backupOK \in BOOLEAN, installOK \in BOOLEAN, restoreOK \in BOOLEAN,
          restarted \in BOOLEAN :
           PerformUpdateReplace(backupOK, installOK, restoreOK, restarted)

SpecUpdater == Init /\ [][NextUpdater]_vars

\* ---------------------------------------------------------------- StartAutoCheck
\* The goroutine of StartAutoCheck: it sleeps, checks, and on an update it
\* is to apply calls PerformUpdate; whatever the outcome it sleeps again.
\* An answer to the check is an error or the version announced.
CheckAnswers ==
    {[err |-> TRUE, version |-> <<>>]}
    \cup {[err |-> FALSE, version |-> v] : v \in UpdateVersions}

InitAutoCheck ==
    /\ InitService
    /\ compared = NoComparison
    /\ updater \in {[UpdaterStart EXCEPT !.loop = "sleep", !.autoApply = a] :
                       a \in BOOLEAN}
    /\ emitted = <<>>
    /\ mirror = NoMirror

\* Where the loop goes once PerformUpdate has returned.
afterUpdateGivesUp(result) ==
    IF result \in {"download", "empty", "checksum", "chmod", "unrunnable",
                   "backup", "install"}
    THEN "stopped" ELSE "sleep"

afterUpdate(result) == "sleep"

\* One iteration up to the first step of the PerformUpdate it calls, whose
\* own CheckForUpdate is answered with the version announced by then.
AutoCheck(answer, announced) ==
    /\ updater.loop = "sleep"
    /\ updater.n < MaxUpdates
    /\ LET latestVersion == TrimPrefixV(answer.version)
           currentVersion == TrimPrefixV(updater.current)
           info == UpdateInfo(currentVersion, latestVersion,
                              Available(latestVersion, currentVersion))
       IN updater' =
             IF answer.err
             THEN [updater EXCEPT !.log = "check failed"]
             ELSE IF ~info.Available
             THEN [updater EXCEPT !.checked = info, !.log = ""]
             ELSE IF ~updater.autoApply
             THEN [updater EXCEPT !.checked = info, !.log = "update available"]
             ELSE updateChecked([updater EXCEPT !.checked = info,
                                                !.log = "updating",
                                                !.loop = "applying"],
                                announced)
    /\ UNCHANGED <<service, compared, emitted, mirror>>

\* PerformUpdate has returned: its error is logged and the loop goes on.
AutoCheckReturned ==
    /\ updater.loop = "applying"
    /\ updater.pc = "idle"
    /\ updater' = [updater EXCEPT
           !.loop = afterUpdate(updater.result),
           !.log = IF updater.result \in {"uptodate", "updated"} THEN @
                   ELSE "auto-update failed"]
    /\ UNCHANGED <<service, compared, emitted, mirror>>

NextAutoCheck ==
    \/ \E answer \in CheckAnswers, announced \in UpdateVersions :
           AutoCheck(answer, announced)
    \/ AutoCheckReturned
    \/ \E d \in Downloads(updater.ver) : PerformUpdateDownload(d)
    \/ \E sums \in SumsAnswers(updater.ver), chmodOK \in BOOLEAN :
           PerformUpdateVerify(sums, chmodOK)
    \/ \E backupOK \in BOOLEAN, installOK \in BOOLEAN, restoreOK \in BOOLEAN,
          restarted \in BOOLEAN :
           PerformUpdateReplace(backupOK, installOK, restoreOK, restarted)

\* The goroutine runs on: a step of PerformUpdate that can be taken is taken.
SpecAutoCheck ==
    /\ InitAutoCheck
    /\ [][NextAutoCheck]_vars
    /\ WF_updater(AutoCheckReturned)
    /\ WF_updater(\E d \in Downloads(updater.ver) : PerformUpdateDownload(d))
    /\ WF_updater(\E sums \in SumsAnswers(updater.ver), chmodOK \in BOOLEAN :
                      PerformUpdateVerify(sums, chmodOK))
    /\ WF_updater(\E backupOK \in BOOLEAN, installOK \in BOOLEAN,
                     restoreOK \in BOOLEAN, restarted \in BOOLEAN :
                      PerformUpdateReplace(backupOK, installOK, restoreOK, restarted))

\* ---------------------------------------------------------------- concurrent requests
\* Requests for one project and environment served at the same time, one
\* per goroutine. A store call runs under the store's mutex and a cache write
\* under latestMu, so each is one step; between the calls of one handler the
\* other goroutines run.
FinalizeVersions == {<<"v", "1.2.0">>, <<"v", "1.3.0">>}
FinalizeChannel == envToChannel(CallTarget[2])
Tracked == [NoSession EXCEPT ![CHOOSE b \in Binaries : TRUE] = CHOOSE h \in Hashes : TRUE]

\* The service with two builds registered and a binary uploaded for each
\* version to finalize, before any release.
InitRequests ==
    /\ buildFiles = [k \in BuildProjects \X BuildNumbers |->
                        IF k[1] = CallTarget[1] /\ k[2] \in {1, 2}
                        THEN Build(k[1], k[2], "ci") ELSE Absent]
    /\ buildIndex = <<BuildEntry(CallTarget[1], 1, "ci"), BuildEntry(CallTarget[1], 2, "ci")>>
    /\ releaseFile = [k \in Keys |-> Absent]
    /\ releaseIndex = Absent
    /\ latest = [c \in CacheKeys |-> NoInfo]
    /\ uploadSessions = [k \in {CallTarget[1]} \X {FinalizeChannel} \X FinalizeVersions
                            |-> Tracked]
    /\ last = NoRequest
    /\ undo = NoRun
    /\ faults = 0
    /\ mu = 0
    /\ pc = [c \in Creators |-> "idle"]
    /\ loaded = [c \in Creators |-> <<>>]
    /\ created = [c \in Creators |-> 0]
    /\ compared = NoComparison
    /\ updater = UpdaterStart
    /\ emitted = <<>>
    /\ mirror = NoMirror

\* The events given to Monitor.Emit; returned is the release the handler
\* answered with.
Promoted(rel) ==
    [type |-> "release.promoted", build_number |-> rel.build, version |-> rel.version]
RolledBack(current, rel) ==
    [type |-> "release.rolled-back", from_build |-> current.build,
     to_build |-> rel.build, returned |-> rel]

\* handlePromoteRelease: Builds.Get, Releases.Promote, the event.
PromoteRequest(c, b, v) ==
    /\ pc[c] = "idle"
    /\ pc' = [pc EXCEPT ![c] = "done"]
    /\ IF BuildGet(CallTarget[1], b).err # ""
       THEN UNCHANGED <<releaseFile, releaseIndex, emitted>>
       ELSE LET r == Promote(CallTarget[1], CallTarget[2], b, v, NoFault)
            IN /\ releaseFile' = r.rf
               /\ releaseIndex' = r.ri
               /\ emitted' = IF r.err = "" THEN Append(emitted, Promoted(r.rel))
                             ELSE emitted
    /\ UNCHANGED <<buildFiles, buildIndex, latest, uploadSessions, last, undo,
                   faults, mu, loaded, created, compared, updater, mirror>>

\* handleRollbackRelease, first call: Releases.Get for the event.
RollbackRequestGet(c) ==
    /\ pc[c] = "idle"
    /\ LET current == Get(CallTarget[1], CallTarget[2])
       IN IF current.err # ""
          THEN /\ pc' = [pc EXCEPT ![c] = "done"]
               /\ UNCHANGED loaded
          ELSE /\ pc' = [pc EXCEPT ![c] = "got"]
               /\ loaded' = [loaded EXCEPT ![c] = current.rel]
    /\ UNCHANGED <<buildFiles, buildIndex, releaseFile, releaseIndex, latest,
                   uploadSessions, last, undo, faults, mu, created, periphery>>

\* handleRollbackRelease, second call: Releases.Rollback, then the event.
RollbackRequestRun(c) ==
    /\ pc[c] = "got"
    /\ pc' = [pc EXCEPT ![c] = "done"]
    /\ LET r == Rollback(CallTarget[1], CallTarget[2], NoFault)
       IN /\ releaseFile' = r.rf
          /\ releaseIndex' = r.ri
          /\ emitted' = IF r.err = "" THEN Append(emitted, RolledBack(loaded[c], r.rel))
                        ELSE emitted
    /\ UNCHANGED <<buildFiles, buildIndex, latest, uploadSessions, last, undo,
                   faults, mu, loaded, created, compared, updater, mirror>>

\* handleFinalize up to Releases.Promote: the upload session is taken, the
\* checksums go to the mirror, the release is persisted.
FinalizeRequestPromote(c, v) ==
    /\ pc[c] = "idle"
    /\ LET k == <<CallTarget[1], FinalizeChannel, v>>
           files == uploadSessions[k]
           clean == TrimPrefixV(v)
           r == Promote(CallTarget[1], channelToEnv(FinalizeChannel), 0, clean, NoFault)
       IN /\ uploadSessions' = [uploadSessions EXCEPT ![k] = NoSession]
          /\ IF SessionSize(files) = 0
             THEN /\ pc' = [pc EXCEPT ![c] = "done"]
                  /\ UNCHANGED <<releaseFile, releaseIndex, loaded>>
             ELSE /\ pc' = [pc EXCEPT ![c] = "persisted"]
                  /\ releaseFile' = r.rf
                  /\ releaseIndex' = r.ri
                  /\ loaded' = [loaded EXCEPT ![c] = clean]
    /\ UNCHANGED <<buildFiles, buildIndex, latest, last, undo, faults, mu, created,
                   periphery>>

\* handleFinalize from SetLatest on.
FinalizeRequestSetLatest(c) ==
    /\ pc[c] = "persisted"
    /\ pc' = [pc EXCEPT ![c] = "done"]
    /\ latest' = SetLatest(latest, CallTarget[1], FinalizeChannel, loaded[c], 0)
    /\ UNCHANGED <<buildFiles, buildIndex, releaseFile, releaseIndex, uploadSessions,
                   last, undo, faults, mu, loaded, created, periphery>>

NextRequests ==
    \E c \in Creators :
        \/ \E in \in CallInputs : PromoteRequest(c, in[1], in[2])
        \/ RollbackRequestGet(c)
        \/ RollbackRequestRun(c)
        \/ \E v \in FinalizeVersions : FinalizeRequestPromote(c, v)
        \/ FinalizeRequestSetLatest(c)

SpecRequests == InitRequests /\ [][NextRequests]_vars

\* ---------------------------------------------------------------- store calls on two pairs
\* ReleaseStore.Promote and Rollback called one call after another for two
\* environments of one project, with builds registered beforehand.
StoreTargets == {<<"demo", "prod">>, <<"demo", "staging">>}

PromoteCall(p, e, b, v) ==
    /\ HistoryRoom
    /\ UNCHANGED <<buildFiles, buildIndex, latest, uploadSessions, undo, goroutines,
                   periphery>>
    /\ \E plan \in Plans(3) :
          LET r == Promote(p, e, b, v, plan)
          IN /\ Charge(r.faulted)
             /\ releaseFile' = r.rf
             /\ releaseIndex' = r.ri
             /\ last' = Stamp(Request("promote", p, e, <<b, v>>, Status(r.err),
                                      releaseFile[<<p, e>>], r.rel))

RollbackCall(p, e) ==
    /\ HistoryRoom
    /\ UNCHANGED <<buildFiles, buildIndex, latest, uploadSessions, undo, goroutines,
                   periphery>>
    /\ \E plan \in Plans(3) :
          LET r == Rollback(p, e, plan)
          IN /\ Charge(r.faulted)
             /\ releaseFile' = r.rf
             /\ releaseIndex' = r.ri
             /\ last' = Stamp(Request("rollback", p, e, NoArg, Status(r.err),
                                      releaseFile[<<p, e>>], r.rel))

NextStore ==
    \E t \in StoreTargets :
        \/ \E in \in CallInputs : PromoteCall(t[1], t[2], in[1], in[2])
        \/ RollbackCall(t[1], t[2])

SpecStore == InitRequests /\ [][NextStore]_vars

\* ---------------------------------------------------------------- concurrent publish requests
\* Legacy publish requests with well-formed parameters served at the same
\* time, one per goroutine. The PUT to the mirror runs outside every lock;
\* uploadSessions is read and written under uploadMu, one step each.
AcceptedFor(k) == {b \in Binaries : <<k, b>> \in mirror.accepted}
UploadsFor(k) == {u[2] : u \in {x \in mirror.uploads : x[1] = k}}

\* The service before any release, with no upload yet or with one binary
\* uploaded for each key by an earlier request, request 0.
InitPublish ==
    /\ buildFiles = [k \in BuildProjects \X BuildNumbers |-> Absent]
    /\ buildIndex = <<>>
    /\ releaseFile = [k \in Keys |-> Absent]
    /\ releaseIndex = Absent
    /\ latest = [c \in CacheKeys |-> NoInfo]
    /\ \E uploaded \in BOOLEAN :
          /\ uploadSessions = [k \in SessionKeys |->
                                  IF uploaded THEN Tracked ELSE NoSession]
          /\ mirror = IF uploaded
                      THEN [NoMirror EXCEPT
                               !.accepted = {<<k, b>> : k \in SessionKeys,
                                             b \in {x \in Binaries : Tracked[x] # ""}},
                               !.uploads = {<<k, 0>> : k \in SessionKeys}]
                      ELSE NoMirror
    /\ last = NoRequest
    /\ undo = NoRun
    /\ faults = 0
    /\ mu = 0
    /\ pc = [c \in Creators |-> "idle"]
    /\ loaded = [c \in Creators |-> <<>>]
    /\ created = [c \in Creators |-> 0]
    /\ compared = NoComparison
    /\ updater = UpdaterStart
    /\ emitted = <<>>

\* handleUploadBinary up to the answer of the mirror.
UploadRequestPut(c, k, bin, h, mirrorOK) ==
    /\ pc[c] = "idle"
    /\ IF mirrorOK
       THEN /\ pc' = [pc EXCEPT ![c] = "accepted"]
            /\ loaded' = [loaded EXCEPT ![c] = [key |-> k, binary |-> bin, hash |-> h]]
            /\ mirror' = [mirror EXCEPT !.accepted = @ \cup {<<k, bin>>}]
       ELSE /\ pc' = [pc EXCEPT ![c] = "done"]
            /\ UNCHANGED <<loaded, mirror>>
    /\ UNCHANGED <<buildFiles, buildIndex, releaseFile, releaseIndex, latest,
                   uploadSessions, last, undo, faults, mu, created, compared,
                   updater, emitted>>

\* handleUploadBinary from "Store hash for finalize" on.
UploadRequestRecord(c) ==
    /\ pc[c] = "accepted"
    /\ pc' = [pc EXCEPT ![c] = "done"]
    /\ uploadSessions' = [uploadSessions EXCEPT
                              ![loaded[c].key][loaded[c].binary] = loaded[c].hash]
    /\ mirror' = [mirror EXCEPT !.uploads = @ \cup {<<loaded[c].key, c>>}]
    /\ UNCHANGED <<buildFiles, buildIndex, releaseFile, releaseIndex, latest, last,
                   undo, faults, mu, loaded, created, compared, updater, emitted>>

\* A finalize that read the session and left it in the map.
FinalizeRequestPeek(c, k) ==
    /\ pc[c] = "idle"
    /\ LET files == uploadSessions[k]
       IN IF SessionSize(files) = 0
          THEN /\ pc' = [pc EXCEPT ![c] = "rejected"]
               /\ loaded' = [loaded EXCEPT ![c] =
                                [key |-> k, after |-> Cardinality(mirror.taken)]]
               /\ UNCHANGED mirror
          ELSE /\ pc' = [pc EXCEPT ![c] = "taken"]
               /\ loaded' = [loaded EXCEPT ![c] =
                                [by |-> c, key |-> k, files |-> files,
                                 uploads |-> UploadsFor(k),
                                 accepted |-> AcceptedFor(k)]]
               /\ mirror' = [mirror EXCEPT !.taken = @ \cup {loaded'[c]}]
    /\ UNCHANGED <<buildFiles, buildIndex, releaseFile, releaseIndex, latest,
                   uploadSessions, last, undo, faults, mu, created, compared,
                   updater, emitted>>

\* handleFinalize under uploadMu: the session is read and deleted; without
\* files the request is answered 400.
FinalizeRequestTake(c, k) ==
    /\ pc[c] = "idle"
    /\ uploadSessions' = [uploadSessions EXCEPT ![k] = NoSession]
    /\ LET files == uploadSessions[k]
           cleared == [mirror EXCEPT
                          !.accepted = {a \in @ : a[1] # k},
                          !.uploads = {u \in @ : u[1] # k}]
       IN IF SessionSize(files) = 0
          THEN /\ pc' = [pc EXCEPT ![c] = "rejected"]
               /\ loaded' = [loaded EXCEPT ![c] =
                                [key |-> k, after |-> Cardinality(mirror.taken)]]
               /\ UNCHANGED mirror
          ELSE /\ pc' = [pc EXCEPT ![c] = "taken"]
               /\ loaded' = [loaded EXCEPT ![c] =
                                [by |-> c, key |-> k, files |-> files,
                                 uploads |-> UploadsFor(k),
                                 accepted |-> AcceptedFor(k)]]
               /\ mirror' = [cleared EXCEPT !.taken = @ \cup {loaded'[c]}]
    /\ UNCHANGED <<buildFiles, buildIndex, releaseFile, releaseIndex, latest, last,
                   undo, faults, mu, created, compared, updater, emitted>>

\* handleFinalize: SHA256SUMS is generated from the files taken and PUT to
\* the mirror; when the mirror fails the request is answered 502.
FinalizeRequestSums(c, mirrorOK) ==
    /\ pc[c] = "taken"
    /\ IF mirrorOK
       THEN /\ pc' = [pc EXCEPT ![c] = "sums"]
            /\ mirror' = [mirror EXCEPT !.sums = @ \cup {loaded[c]}]
       ELSE /\ pc' = [pc EXCEPT ![c] = "done"]
            /\ UNCHANGED mirror
    /\ UNCHANGED <<buildFiles, buildIndex, releaseFile, releaseIndex, latest,
                   uploadSessions, last, undo, faults, mu, loaded, created,
                   compared, updater, emitted>>

\* handleFinalize: Releases.Promote, whose error is only logged.
FinalizeRequestPersist(c) ==
    /\ pc[c] = "sums"
    /\ pc' = [pc EXCEPT ![c] = "persisted"]
    /\ LET k == loaded[c].key
           clean == TrimPrefixV(k[3])
           r == Promote(k[1], channelToEnv(k[2]), 0, clean, NoFault)
       IN /\ releaseFile' = r.rf
          /\ releaseIndex' = r.ri
          /\ loaded' = [loaded EXCEPT ![c] = clean]
    /\ UNCHANGED <<buildFiles, buildIndex, latest, uploadSessions, last, undo,
                   faults, mu, created, periphery>>

NextPublish ==
    \E c \in Creators :
        \/ \E k \in SessionKeys, bin \in Binaries, h \in Hashes, mirrorOK \in BOOLEAN :
              UploadRequestPut(c, k, bin, h, mirrorOK)
        \/ UploadRequestRecord(c)
        \/ \E k \in SessionKeys : FinalizeRequestTake(c, k)
        \/ \E mirrorOK \in BOOLEAN : FinalizeRequestSums(c, mirrorOK)
        \/ FinalizeRequestPersist(c)
        \/ FinalizeRequestSetLatest(c)

SpecPublish == InitPublish /\ [][NextPublish]_vars

\* ---------------------------------------------------------------- properties
\* The request last made was a promote or a rollback that answered success.
TransitionDone == last.op \in {"promote", "rollback"} /\ last.status = "ok"

\* The build number of the release a request found: 0 when there was none.
BuildFound == IF last.before.kind = "release" THEN last.before.build ELSE 0

\* C1: after a promote or rollback request answers success, a poll of the
\* channel of its environment returns the version and build number of the
\* new current release, whatever the cache held before.
CachePollsNewRelease ==
    TransitionDone =>
        GetLatest(last.project, envToChannel(last.env))
            = [ok |-> TRUE, info |-> latestInfo(last.ret.version, last.ret.build)]

\* C2: after a successful promote or rollback, Get returns the release of
\* that transition: the build and version the promote was called with, and
\* as previous build the build of the release found before it (0 when there
\* was none); and a promote over any readable state succeeds when no write
\* fails.
PromoteOverwrites ==
    \A in \in PromoteInputs :
        (/\ in[1] \in Projects
         /\ in[2] \in validEnvironments
         /\ ~loadIndex.err
         /\ ~loadRelease(in[1], in[2]).err)
        => Promote(in[1], in[2], in[3], in[4], NoFault).err = ""

GetReturnsLastTransition ==
    /\ (TransitionDone \/ (last.op = "finalize" /\ last.ret # Nil)) =>
          /\ Get(last.project, last.env) = [err |-> "", rel |-> last.ret]
          /\ last.ret.prev = BuildFound
          /\ last.op # "rollback" =>
                /\ last.ret.build = last.arg[1]
                /\ last.ret.version = last.arg[2]
    /\ PromoteOverwrites

\* C2's case: a promote has replaced an existing release.
PromotedOverRelease ==
    /\ last.op = "promote"
    /\ last.status = "ok"
    /\ last.before.kind = "release"
    /\ last.ret.prev # 0
    /\ last.ret.build # last.ret.prev

\* The history as it was before the entry of the last transition.
HistoryBefore == SubSeq(loadIndex.entries, 1, Len(loadIndex.entries) - 1)

\* i is the most recent entry of h for build b of (p, e).
MostRecentEntry(h, i, p, e, b) ==
    LET match(j) == h[j].project = p /\ h[j].environment = e /\ h[j].build = b
    IN match(i) /\ \A j \in (i + 1)..Len(h) : ~match(j)

\* C3: a rollback of a release with build b and previous build p # 0 makes
\* the current release one with build p, previous build b and the version
\* of the most recent history entry for build p.
RollbackRestoresPrevious ==
    (last.op = "rollback" /\ last.status = "ok") =>
        /\ Get(last.project, last.env).rel.build = last.before.prev
        /\ Get(last.project, last.env).rel.prev = last.before.build
        /\ \E i \in 1..Len(HistoryBefore) :
              /\ MostRecentEntry(HistoryBefore, i, last.project, last.env,
                                 last.before.prev)
              /\ Get(last.project, last.env).rel.version = HistoryBefore[i].version

\* C4 as stated: of consecutive rollbacks only the first succeeds.
RollbackSingleLevel == undo.n <= 1

\* C4: a rollback of a release whose build number is not 0 records that
\* build as the previous one, so the next rollback is not refused; the
\* second of two consecutive rollbacks returns the build and previous build
\* the first one found.
RollbackToggles ==
    /\ (last.op = "rollback" /\ last.status = "ok" /\ last.before.build # 0) =>
          /\ Get(last.project, last.env).rel.prev = last.before.build
          /\ rollbackRefusal(Get(last.project, last.env).rel) = ""
    /\ undo.n = 2 =>
          /\ last.ret.build = undo.start.build
          /\ last.ret.prev = undo.start.prev

\* C4's case: a second consecutive rollback has succeeded.
SecondRollbackDone == undo.n = 2 /\ last.ret.build # last.ret.prev

\* C5: two consecutive successful rollbacks of a release with a non-empty
\* version and a previous build return the pair to that release.
RollbackSymmetric ==
    (undo.n = 2 /\ undo.start.version # <<>> /\ undo.start.prev # 0) =>
        Get(last.project, last.env).rel = undo.start

\* C6: a rollback of a pair with no current release, or whose current
\* release has previous build 0, answers an error and leaves the release
\* record, the history and the cache as they were.
NothingToRollBack ==
    \/ last.before = Absent
    \/ last.before.kind = "release" /\ last.before.prev = 0

RollbackRefusedUnchanged ==
    (last.op = "rollback" /\ NothingToRollBack) =>
        /\ last.status \in {"no_release", "no_previous"}
        /\ ~last.changed
        /\ last.ret = Nil

\* C6's case: a rollback was refused for want of a previous build.
RollbackRefusedNoPrevious ==
    /\ last.op = "rollback"
    /\ last.status = "no_previous"
    /\ last.before.kind = "release"
    /\ last.before.build # 0

\* C7: the history is append-only and total: a step never changes, reorders
\* or removes an entry List returned before it, and a successful promote or
\* rollback adds exactly one entry at the end.
HistoryGrows ==
    LET h == List("demo")
        g == List("demo")'
    IN /\ ~g.err
       /\ Len(g.entries) >= Len(h.entries)
       /\ Len(g.entries) <= Len(h.entries) + 1
       /\ SubSeq(g.entries, 1, Len(h.entries)) = h.entries
       /\ (last' # last /\ TransitionDone') =>
             /\ Len(g.entries) = Len(h.entries) + 1
             /\ g.entries[Len(g.entries)]
                    = Entry(last'.project, last'.env, last'.ret.build, last'.ret.version)

HistoryAppendOnly == [][HistoryGrows]_vars

\* The history entries of one pair, in order.
HistoryOf(p, e) ==
    SelectSeq(loadIndex.entries, LAMBDA x : x.project = p /\ x.environment = e)

\* C8: between requests the release record and the history agree, also
\* after a request that answered a storage error: the current release has
\* the build and version of the last history entry of its pair, and a pair
\* without a release has no history.
RecordMatchesHistory ==
    \A k \in Keys :
        LET h == HistoryOf(k[1], k[2])
            r == Get(k[1], k[2])
        IN IF r.err = ""
           THEN /\ Len(h) > 0
                /\ h[Len(h)].build = r.rel.build
                /\ h[Len(h)].version = r.rel.version
           ELSE r.err = "no_release" /\ Len(h) = 0

\* C9: no failure of a write leaves a partly written file under the name of
\* a build record, the build index, a release record or the release index.
Partial(f) == f \in {EmptyFile, Torn}

NoPartialFile ==
    /\ \A k \in DOMAIN buildFiles : ~Partial(buildFiles[k])
    /\ \A k \in Keys : ~Partial(releaseFile[k])
    /\ ~Partial(releaseIndex)

\* C10: of the Create calls running concurrently for one project, those that
\* succeeded were given distinct numbers, the numbers given are 1..k for k
\* successes, and the index holds exactly those k entries, in order, each
\* with the build record of its creator.
Succeeded == {c \in Creators : created[c] # 0}

CreateNumbersDistinctGapless ==
    /\ \A c, d \in Succeeded : c # d => created[c] # created[d]
    /\ {created[c] : c \in Succeeded} = 1..Cardinality(Succeeded)
    /\ \A c \in Succeeded :
          BuildGet("demo", created[c]) = [err |-> "", build |-> Build("demo", created[c], c)]
    /\ (\A c \in Creators : pc[c] \in {"idle", "locked", "loaded", "done"}) =>
          /\ Len(BuildList("demo")) = Cardinality(Succeeded)
          /\ \A i \in 1..Len(BuildList("demo")) : BuildList("demo")[i].number = i

\* C10's case: every creator has returned and all of them succeeded.
AllCreated ==
    /\ \A c \in Creators : pc[c] = "done"
    /\ Cardinality(Succeeded) = NumCreators
    /\ NumCreators > 1

\* The numbers of a project's entries in an index, in index order.
NumbersOf(idx, project) ==
    LET own == SelectSeq(idx, LAMBDA x : x.project = project)
    IN [i \in 1..Len(own) |-> own[i].number]

\* The largest of a set of naturals, 0 for the empty set.
Largest(S) == IF S = {} THEN 0 ELSE CHOOSE n \in S : \A m \in S : m <= n

\* C11: Create returns one more than the largest number indexed for its
\* project (1 if none); a project's entries are listed in creation order
\* and numbered 1..N; a create adds its entry at the end of its project's
\* list and leaves the list of every other project as it was.
CreateNumbersInOrder ==
    /\ \A p \in BuildProjects :
          NumbersOf(buildIndex, p) = [i \in 1..Len(BuildList(p)) |-> i]
    /\ (last.op = "create" /\ last.status = "ok") =>
          /\ last.ret.number
                = 1 + Largest({last.before[i].number : i \in
                        {j \in 1..Len(last.before) : last.before[j].project = last.project}})
          /\ NumbersOf(buildIndex, last.project)
                = Append(NumbersOf(last.before, last.project), last.ret.number)
          /\ BuildList(last.project)[Len(BuildList(last.project))].by = last.ret.by
          /\ \A q \in BuildProjects \ {last.project} :
                BuildList(q) = SelectSeq(last.before, LAMBDA x : x.project = q)

\* C11's case: a create for one project returned 2 after a create for the
\* other project came between its two creates.
CreatedSecondAfterOther ==
    /\ last.op = "create"
    /\ last.status = "ok"
    /\ last.ret.number = 2
    /\ Len(last.before) = 2
    /\ last.before[2].project # last.project

\* C12: a build that Get has returned stays as it is: no step changes the
\* result of Get(project, n) once it is a build.
BuildKept ==
    \A k \in DOMAIN buildFiles :
        BuildGet(k[1], k[2]).err = "" => BuildGet(k[1], k[2])' = BuildGet(k[1], k[2])

BuildsImmutable == [][BuildKept]_vars

\* C13: the current release of every pair names a build that exists in the
\* build store for its project.
ReleaseReferencesBuild ==
    \A k \in Keys :
        Get(k[1], k[2]).err = "" => BuildGet(k[1], Get(k[1], k[2]).rel.build).err = ""

\* The last request is one the handlers must refuse: a promote with an
\* empty project, an environment outside dev, staging and prod, a build
\* number that is not positive, an empty version or a build that does not
\* exist; a rollback with an empty project or such an environment.
BadRequest ==
    LET badTarget == last.project = "" \/ last.env \notin {"dev", "staging", "prod"}
    IN \/ last.op = "rollback" /\ badTarget
       \/ /\ last.op = "promote"
          /\ \/ badTarget
             \/ last.arg[1] <= 0
             \/ last.arg[2] = <<>>
             \/ BuildGet(last.project, last.arg[1]).err # ""

\* C14: such a request is rejected and changes no release record, history
\* entry or cache entry.
BadRequestRejected ==
    BadRequest =>
        /\ last.status \in {"invalid", "no_build"}
        /\ ~last.changed
        /\ last.ret = Nil

\* C14's case: a promote to an unknown environment was rejected while the
\* pair of its project holds a release.
BadPromoteRejected ==
    /\ last.op = "promote"
    /\ last.env = "qa"
    /\ last.status = "invalid"
    /\ Get("demo", "prod").err = ""

\* C15: a Get or List running beside promotes and rollbacks reads the
\* record and the history whole: while a reader holds the store, the
\* current release is the one of the last history entry of the pair, and
\* there is no record without a history entry.
ReaderSeesWhole ==
    (\E c \in Creators : pc[c] = "reading") =>
        LET h == HistoryOf(CallTarget[1], CallTarget[2])
            r == Get(CallTarget[1], CallTarget[2])
        IN IF r.err = ""
           THEN /\ Len(h) > 0
                /\ Entry(CallTarget[1], CallTarget[2], r.rel.build, r.rel.version) = h[Len(h)]
           ELSE r.err = "no_release" /\ Len(h) = 0

\* C16: concurrent promotes and rollbacks do not interleave their updates
\* of the history: the entry of every call that succeeded stands in the
\* history at the place that call gave it, and no two calls share a place.
ContributionsKept ==
    \A c \in Creators :
        created[c] # 0 =>
            /\ ~loadIndex.err
            /\ Len(loadIndex.entries) >= created[c]
            /\ loadIndex.entries[created[c]]
                  = Entry(CallTarget[1], CallTarget[2],
                          loaded[c].rel.build, loaded[c].rel.version)
            /\ \A d \in Creators \ {c} : created[d] # created[c]

MissFallsBackToStore ==
    \A c \in CacheKeys :
        latest[c] = NoInfo =>
            LET r == Get(c[1], channelToEnv(c[2]))
            IN IF r.err = ""
               THEN GetLatest(c[1], c[2])
                       = [ok |-> TRUE, info |-> latestInfo(r.rel.version, r.rel.build)]
               ELSE ~GetLatest(c[1], c[2]).ok

\* C18's case: the cache misses for a channel whose environment holds a
\* promoted release.
MissOverRelease ==
    /\ latest[<<"demo", "production">>] = NoInfo
    /\ Get("demo", "prod").err = ""
    /\ Get("demo", "prod").rel.build # 0

\* The channels the cache is keyed by and the environments the store keeps
\* releases for.
CacheChannels == {c[2] : c \in DOMAIN latest}
StoreEnvironments == {k[2] : k \in DOMAIN releaseFile}

\* C19: the two mappings are inverse to each other on the channels and the
\* environments, the identity except production <-> prod, and no two
\* channels resolve to one environment.
MappingsInverse ==
    /\ CacheChannels = Channels
    /\ StoreEnvironments = validEnvironments
    /\ \A c \in CacheChannels : envToChannel(channelToEnv(c)) = c
    /\ \A e \in StoreEnvironments : channelToEnv(envToChannel(e)) = e
    /\ \A c \in CacheChannels : channelToEnv(c) \in StoreEnvironments
    /\ \A e \in StoreEnvironments : envToChannel(e) \in CacheChannels
    /\ \A c \in CacheChannels \ {"production"} : channelToEnv(c) = c
    /\ \A e \in StoreEnvironments \ {"prod"} : envToChannel(e) = e
    /\ channelToEnv("production") = "prod"
    /\ envToChannel("prod") = "production"
    /\ \A c, d \in CacheChannels : channelToEnv(c) = channelToEnv(d) => c = d

\* C19's case: a finalize on channel production has written the release of
\* environment prod and the cache entry of the channel.
PublishedToProd ==
    /\ last.op = "finalize"
    /\ last.env = "prod"
    /\ last.ret # Nil
    /\ latest[<<"demo", "production">>] # NoInfo

\* C20: no reference dangles, also after a call that failed part-way: every
\* entry of the build index has a readable build record, and every pair
\* that appears in the release history has a current release record.
NoDanglingReference ==
    /\ \A i \in 1..Len(buildIndex) :
          BuildGet(buildIndex[i].project, buildIndex[i].number).err = ""
    /\ \A i \in 1..Len(loadIndex.entries) :
          Get(loadIndex.entries[i].project, loadIndex.entries[i].environment).err = ""

\* The number the create last called had to choose: one more than the
\* largest its project had in the index it found.
NumberChosen ==
    1 + Largest({last.before[i].number : i \in
            {j \in 1..Len(last.before) : last.before[j].project = last.project}})

\* C21: when Create fails, the index is as it was, List does not show the
\* number the call had chosen, and the next Create for the project succeeds
\* with that very number.
CreateFailureKeepsNumber ==
    (last.op = "create" /\ last.status = "storage") =>
        /\ buildIndex = last.before
        /\ \A i \in 1..Len(BuildList(last.project)) :
              BuildList(last.project)[i].number # NumberChosen
        /\ \A by \in BuildUploaders :
              /\ Create(last.project, by, NoFault).err = ""
              /\ Create(last.project, by, NoFault).build.number = NumberChosen

\* C21's case: a create failed on saving the index, after its build record
\* was written.
CreateFailedAfterRecord ==
    /\ last.op = "create"
    /\ last.status = "storage"
    /\ BuildGet(last.project, NumberChosen).err = ""

\* A step that saved the release record and appended the history entry: the
\* readable history is one entry longer after it.
TransitionPersisted ==
    /\ ~loadIndex.err
    /\ ~loadIndex'.err
    /\ Len(loadIndex'.entries) = Len(loadIndex.entries) + 1

CompareTotalOrder ==
    compared.op = "Compare" =>
        /\ compared.result \in {-1, 0, 1}
        /\ Compare(compared.v1, compared.v1) = 0
        /\ compared.result = 0 - Compare(compared.v2, compared.v1)
        /\ \A c \in Versions :
              (compared.result > 0 /\ Compare(compared.v2, c) > 0)
                  => Compare(compared.v1, c) > 0

\* C23's case: Compare put its first argument above the second, which is
\* itself above a third version.
ComparedChain ==
    /\ compared.op = "Compare"
    /\ compared.result = 1
    /\ \E c \in Versions : Compare(compared.v2, c) = 1

\* C24: Compare drops one leading "v", splits on "." and compares the
\* components from the left as integers, a missing and a non-numeric
\* component counting as 0: a "v" put before an argument, a ".0" or a ".b"
\* put after it, leave the result as it is; the component that first differs
\* decides; and the examples come out as stated.
CompareByComponents ==
    compared.op = "Compare" =>
        /\ compared.v1[1] # "v" =>
              Compare(<<"v">> \o compared.v1, compared.v2) = compared.result
        /\ compared.v2[1] # "v" =>
              Compare(compared.v1, <<"v">> \o compared.v2) = compared.result
        /\ Compare(compared.v1 \o <<".", "0">>, compared.v2) = compared.result
        /\ Compare(compared.v1 \o <<".", "b">>, compared.v2) = compared.result
        /\ Compare(compared.v1 \o <<".", "2">>, compared.v1 \o <<".", "0">>) = 1
        /\ (compared.v1[1] # "v" /\ compared.v2[1] # "v") =>
              /\ Compare(<<"2", ".">> \o compared.v1, <<"0", ".">> \o compared.v2) = 1
              /\ Compare(<<"0", ".">> \o compared.v1, <<"2", ".">> \o compared.v2) = -1
              /\ Compare(<<"2", ".">> \o compared.v1, <<"2", ".">> \o compared.v2)
                    = compared.result
        /\ Compare(<<"v", "1", ".", "2", ".", "0">>, <<"1", ".", "2", ".", "0">>) = 0
        /\ Compare(<<"1", ".", "0">>, <<"1", ".", "0", ".", "0">>) = 0
        /\ Compare(<<"2", ".", "0", ".", "0">>, <<"1", ".", "9", ".", "9">>) = 1
        /\ Compare(<<"1", ".", "0", ".", "0">>, <<"1", ".", "0", ".", "1">>) = -1
        /\ Compare(<<"1", "0">>, <<"9">>) = 1
        /\ Compare(<<"v", "v", "2">>, <<"0">>) = 0

\* C24's case: Compare found a version with a leading "v" equal to one
\* with another number of components.
ComparedPadded ==
    /\ compared.op = "Compare"
    /\ compared.result = 0
    /\ compared.v1[1] = "v"
    /\ Len(Split(TrimPrefixV(compared.v1), ".")) < Len(Split(compared.v2, "."))

\* Pre-release qualifiers: without and with a dot of their own.
Qualifiers == {<<"-", "b">>, <<"-", "b", ".", "2">>}

\* C25: a qualifier introduced by "-" is ignored: a version with any
\* qualifier put after it, also one that has dots, compares equal to the
\* version itself.
QualifiersIgnored ==
    compared.op = "Compare" =>
        \A q \in Qualifiers : Compare(compared.v1 \o q, compared.v1) = 0

\* C27: IsNewer holds exactly when Compare gives 1: it is false of equal
\* versions, false of a version and itself, and never true both ways.
IsNewerIsCompareOne ==
    compared.op = "IsNewer" =>
        /\ compared.newer <=> (Compare(compared.v1, compared.v2) = 1)
        /\ Compare(compared.v1, compared.v2) = 0 => ~compared.newer
        /\ ~IsNewer(compared.v1, compared.v1)
        /\ ~(compared.newer /\ IsNewer(compared.v2, compared.v1))

\* C27's case: IsNewer answered true.
IsNewerAnsweredTrue == compared.op = "IsNewer" /\ compared.newer

\* C26: the updater verifies before it replaces: an executable other than
\* the one the update found is a non-empty file whose SHA-256 is the entry
\* of the binary's name in the SHA256SUMS fetched, and which ran "version";
\* and an update that ended on one of these checks left the executable as it
\* was and no download behind.
VerifiedBeforeReplaced ==
    /\ (updater.exec # updater.was /\ updater.exec # Absent) =>
          /\ Size(updater.exec) > 0
          /\ updater.sums.status = 200
          /\ expectedSum(updater.sums.lines, binaryName) = hashFile(updater.exec)
          /\ Runs(updater.exec)
    /\ updater.result \in {"empty", "checksum", "unrunnable"} =>
          /\ updater.exec = updater.was
          /\ updater.tmp = Absent

\* C26's case: an update went through and the executable is the download.
UpdateInstalled ==
    /\ updater.result = "updated"
    /\ updater.exec # updater.was
    /\ updater.backup = updater.was

\* C30: when a finalize answers success, the cache entry of its channel
\* holds the version without its leading "v" and build 0, the current
\* release of the channel's environment holds that version, and InitLatest
\* run on the store as it is gives the channel that version again.
FinalizePersisted ==
    (last.op = "finalize" /\ last.status = "ok") =>
        LET c == <<last.project, envToChannel(last.env)>>
        IN /\ latest[c] = latestInfo(last.arg[2], 0)
           /\ Get(last.project, last.env).err = ""
           /\ Get(last.project, last.env).rel.version = last.arg[2]
           /\ InitLatest[c] # NoInfo
           /\ InitLatest[c].version = last.arg[2]

\* C28: every release.rolled-back event agrees with the transition its
\* request performed: from_build is the previous build of the release
\* returned and to_build its build, whatever ran between the handler's two
\* store calls.
RollbackEventConsistent ==
    \A i \in 1..Len(emitted) :
        emitted[i].type = "release.rolled-back" =>
            /\ emitted[i].from_build = emitted[i].returned.prev
            /\ emitted[i].to_build = emitted[i].returned.build

\* No request is under way.
AllCompleted == \A c \in Creators : pc[c] \in {"idle", "done"}

\* C29: once every request has completed, the cache entry of the channel,
\* when there is one, has the version of the current release of the
\* channel's environment.
CacheAgreesWithStore ==
    (AllCompleted /\ latest[<<CallTarget[1], FinalizeChannel>>] # NoInfo) =>
        /\ Get(CallTarget[1], CallTarget[2]).err = ""
        /\ latest[<<CallTarget[1], FinalizeChannel>>].version
              = Get(CallTarget[1], CallTarget[2]).rel.version

\* C31: a current release that replaced an earlier one can be rolled back:
\* when the history of a pair has two entries or more and the pair has a
\* current release, that release's previous build is not 0 and Rollback
\* succeeds.
RollbackAvailable ==
    \A k \in Keys :
        (~loadIndex.err /\ Len(HistoryOf(k[1], k[2])) >= 2 /\ Get(k[1], k[2]).err = "") =>
            /\ Get(k[1], k[2]).rel.prev # 0
            /\ Rollback(k[1], k[2], NoFault).err = ""

\* C32: whenever Rollback passes its checks, the history has an entry for
\* the previous build of the pair, with a version: the search for the
\* previous version finds one, and the fallback to the current version is
\* not taken.
PreviousVersionFound ==
    \A k \in Keys :
        LET cur == loadRelease(k[1], k[2])
        IN (~cur.err /\ rollbackRefusal(cur.rel) = "" /\ ~loadIndex.err) =>
              scanBack(loadIndex.entries, Len(loadIndex.entries),
                       k[1], k[2], cur.rel.prev) # <<>>

\* What a promote or rollback of one pair leaves alone: the release file
\* of every other pair, the history entries there were, the build records
\* and the build index.
FrameOf(p, e) ==
    /\ \A k \in Keys \ {<<p, e>>} : releaseFile'[k] = releaseFile[k]
    /\ (~loadIndex.err /\ Len(loadIndex.entries) > 0) =>
          /\ ~loadIndex'.err
          /\ Len(loadIndex'.entries) >= Len(loadIndex.entries)
          /\ SubSeq(loadIndex'.entries, 1, Len(loadIndex.entries)) = loadIndex.entries
    /\ buildFiles' = buildFiles
    /\ buildIndex' = buildIndex

\* C33: a promote or rollback of (project, environment) changes neither
\* the current release of another pair, nor a history entry already there,
\* nor a build record, nor the build index.
PromoteRollbackFrame ==
    [][last'.op \in {"promote", "rollback"} => FrameOf(last'.project, last'.env)]_vars

\* C34: the client never downgrades: a check reports an update exactly
\* when the announced version compares above the running one, nothing is
\* downloaded or installed after a check that reported none, and an
\* executable the update put in place has a version above the running one.
NeverDowngrades ==
    updater.n > 0 =>
        /\ updater.info.Available
              <=> (Compare(updater.info.LatestVersion, updater.info.CurrentVersion) = 1)
        /\ ~updater.info.Available =>
              /\ updater.pc = "idle"
              /\ updater.result = "uptodate"
              /\ updater.exec = updater.was
        /\ updater.exec # updater.was /\ updater.exec # Absent =>
              Compare(updater.exec.version, updater.info.CurrentVersion) = 1

\* C34's case: the server announced a version below the running one, after
\* an update had raised the running one, and nothing was installed.
LowerVersionIgnored ==
    /\ updater.n > 1
    /\ Compare(updater.info.LatestVersion, updater.info.CurrentVersion) = -1
    /\ updater.result = "uptodate"
    /\ updater.exec = updater.was

\* The results with which PerformUpdate returns an error.
UpdateErrors ==
    {"download", "empty", "checksum", "chmod", "unrunnable", "backup", "install"}

\* C35: whenever PerformUpdate has returned an error the executable path
\* holds the binary the update found there, and at every step that binary
\* is at the executable path or at the backup path.
OriginalKeptOnError ==
    /\ updater.result \in UpdateErrors => updater.exec = updater.was
    /\ updater.was \in {updater.exec, updater.backup}

\* C36: the loop of StartAutoCheck never stops: it is always sleeping or
\* inside PerformUpdate, and from PerformUpdate it comes back to sleeping,
\* also after a failed update; a failed check leaves it sleeping;
\* PerformUpdate is called only with autoApply set and in an iteration
\* whose check reported an update.
AutoCheckKeepsRunning ==
    /\ [](updater.loop \in {"sleep", "applying"})
    /\ [](updater.log = "check failed" => updater.loop = "sleep")
    /\ [](updater.loop = "applying" =>
             updater.autoApply /\ updater.checked.Available)
    /\ []((~updater.autoApply) => updater.n = 0)
    /\ (updater.loop = "applying") ~> (updater.loop = "sleep")

\* C36's case: an update the loop applied failed and the loop sleeps again.
SleepsAfterFailedUpdate ==
    /\ updater.loop = "sleep"
    /\ updater.log = "auto-update failed"
    /\ updater.result \in UpdateErrors

\* The step of a finalize request that reads the session of its key.
FinalizeStep(c) == pc[c] = "idle" /\ pc'[c] \in {"taken", "rejected"}

\* C37: a finalize is rejected exactly when the session of its key holds no
\* file, and the rejected request leaves the release files, the history and
\* the cache as they were; a hash enters a session only from an upload the
\* mirror accepted; every SHA256SUMS the mirror received lists exactly the
\* binaries the mirror accepted for the key since a finalize last took the
\* session of the key.
SumsListAccepted ==
    /\ [][\A c \in Creators :
             FinalizeStep(c) =>
                /\ pc'[c] = "rejected" <=>
                      SessionSize(uploadSessions[loaded'[c].key]) = 0
                /\ pc'[c] = "rejected" =>
                      UNCHANGED <<releaseFile, releaseIndex, latest>>]_vars
    /\ [][\A k \in SessionKeys, b \in Binaries :
             (uploadSessions'[k][b] # "" /\ uploadSessions'[k][b] # uploadSessions[k][b])
                => \E c \in Creators :
                      /\ pc[c] = "accepted"
                      /\ loaded[c] = [key |-> k, binary |-> b,
                                      hash |-> uploadSessions'[k][b]]]_vars
    /\ [](\A t \in mirror.sums : {b \in Binaries : t.files[b] # ""} = t.accepted)

\* C38: the step of finalize that reads the session leaves none for its key,
\* whatever the mirror answers later; a finalize that finds no upload
\* recorded since the session was last taken is rejected; no upload is in
\* the sessions taken by two finalize requests, and a SHA256SUMS comes from
\* a session taken.
SessionConsumedOnce ==
    /\ [][\A c \in Creators :
             FinalizeStep(c) =>
                /\ uploadSessions'[loaded'[c].key] = NoSession
                /\ UploadsFor(loaded'[c].key) = {} => pc'[c] = "rejected"]_vars
    /\ [](\A t1 \in mirror.taken, t2 \in mirror.taken :
             (t1.by # t2.by /\ t1.key = t2.key) => t1.uploads \cap t2.uploads = {})
    /\ [](mirror.sums \subseteq mirror.taken)
    /\ [](\A t \in mirror.taken : t.uploads # {})

\* C38's case: a finalize was rejected after another had taken the session
\* of the same key, and the mirror had refused the SHA256SUMS of that one.
SecondFinalizeRejected ==
    \E c \in Creators, t \in mirror.taken :
        /\ pc[c] = "rejected"
        /\ loaded[c].after > 0
        /\ loaded[c].key = t.key
        /\ t \notin mirror.sums
        /\ pc[t.by] = "done"


====
